---- MODULE Spec2Model ----
(***************************************************************************)
(* Dealer's Dojo: the client-side game controller (the DOMContentLoaded   *)
(* closure) as a state machine.  State is the closure's variables, the    *)
(* DOM properties the handlers read or write, the localStorage record and *)
(* the relay calls in flight.  One action per event handler or network    *)
(* completion.                                                             *)
(***************************************************************************)
EXTENDS Integers, Sequences, FiniteSets, TLC

\* ---------------------------------------------------------------- bounds
MaxLevels == 4
MaxMissionLength == 2
\* submissions followed while no level is current (the count has no limit there)
MaxCount == 2
\* the longest catalog followed under the fairness condition
MaxFairLevels == 2
ScoreChanges == {-1, 1}
PassScores == {1}
\* what the user types: a blank text and one that needs trimming
Texts == {<<" ">>, <<" ", "a", " ">>}

\* ------------------------------------------------------------- JS arrays
\* An array is a function on its defined indices (0-based); an index outside
\* the domain reads as undefined.
Length(a) == IF DOMAIN a = {} THEN 0
             ELSE (CHOOSE m \in DOMAIN a : \A j \in DOMAIN a : j <= m) + 1

Defined(a, i) == i \in DOMAIN a

ArraySet(a, i, v) == [j \in (DOMAIN a) \cup {i} |-> IF j = i THEN v ELSE a[j]]

\* !a[i] on the unlocks array: undefined is falsy
Truthy(a, i) == IF Defined(a, i) THEN a[i] ELSE FALSE

\* x > a[i] on the scores array: a comparison with undefined is false
GreaterThan(x, a, i) == IF Defined(a, i) THEN x > a[i] ELSE FALSE

\* JSON.parse(JSON.stringify(a)): a hole is written as null, which reads back
\* as a falsy value that compares like 0
JsonArray(a, null) == [j \in 0 .. (Length(a) - 1) |-> IF Defined(a, j) THEN a[j] ELSE null]

JsonProgress(p) == [unlocks |-> JsonArray(p.unlocks, FALSE), scores |-> JsonArray(p.scores, 0)]

\* ------------------------------------------------------------ constants
DefaultProgress == [unlocks |-> (0 :> TRUE @@ 1 :> FALSE @@ 2 :> FALSE),
                    scores |-> (0 :> 0 @@ 1 :> 0 @@ 2 :> 0)]

\* currentLevel = null, and the undefined that Array.find returns
NoLevel == [id |-> 0, missionLength |-> 0, passScore |-> 0]

\* levels.json: ids follow the position (index = id - 1)
MkCatalog(n, ml, ps) ==
  [i \in 1 .. n |-> [id |-> i,
                     missionLength |-> ((ml + i) % MaxMissionLength) + 1,
                     passScore |-> ps]]

CatalogSources == {MkCatalog(n, ml, ps) : n \in 1 .. MaxLevels,
                                          ml \in 1 .. MaxMissionLength,
                                          ps \in PassScores}

\* String.prototype.trim on a string given as its sequence of characters
RECURSIVE TrimStart(_)
TrimStart(s) == IF s = <<>> THEN s
                ELSE IF Head(s) = " " THEN TrimStart(Tail(s)) ELSE s

RECURSIVE TrimEnd(_)
TrimEnd(s) == IF s = <<>> THEN s
              ELSE IF s[Len(s)] = " " THEN TrimEnd(SubSeq(s, 1, Len(s) - 1)) ELSE s

\* variant: the text is used as typed
TrimOmitted(s) == s

Trim(s) == TrimEnd(TrimStart(s))

VARIABLES
  storage,            \* localStorage["dealersDojoProgress"]
  catalogSrc,         \* the content of ./levels.json
  initPc,             \* where init() is: "fetching", "done", "failed", "threw"
  playerProgress, levelsData, currentLevel, chatHistory, currentScore, messageCount,
  screen,             \* the screen that carries the class "active"
  levelGrid,          \* the rendered level cards: id and disabled flag of each button
  chatLog,            \* the senders of the transcript entries
  chatInputDisabled, sendButtonDisabled,
  debriefTitle, debriefMessage, debriefScore,
  inflight,           \* relay calls issued and not yet resolved
  ctrl,               \* the controller state of the mission state machine
  accepted,           \* accepted submissions since startLevel
  okSum,              \* sum of score_change over the succeeded turns since startLevel
  resolutions,        \* runs of endMission since startLevel
  ev,                 \* the last event
  API_KEY,            \* relay: whether process.env.GEMINI_API_KEY is set
  relayReq,           \* relay: the request the handler was last called with
  relayPc,            \* relay: "idle", "awaitModel", "responded", "threw"
  relayStatus,        \* relay: the status of the response sent (0: none)
  modelInvoked        \* relay: whether the handler called the external model

jsVars == <<playerProgress, levelsData, currentLevel, chatHistory, currentScore, messageCount>>
domVars == <<screen, levelGrid, chatLog, chatInputDisabled, sendButtonDisabled,
             debriefTitle, debriefMessage, debriefScore>>
ghostVars == <<ctrl, accepted, okSum, resolutions>>
clientVars == <<storage, catalogSrc, initPc, jsVars, domVars, inflight, ghostVars, ev>>
relayVars == <<API_KEY, relayReq, relayPc, relayStatus, modelInvoked>>
vars == <<clientVars, relayVars>>

\* the last event: its kind, the text typed, whether a handler ran for it
Event(op, text, handled) == [op |-> op, text |-> text, handled |-> handled]

\* ------------------------------------------------------------ operations
\* saveProgress: JSON.stringify(playerProgress) under the fixed key
saveProgress(p) == [kind |-> "json", value |-> JsonProgress(p)]

\* loadProgress: the progress and the stored record after it ran (when it
\* does not throw)
loadProgressThrows(st) == st.kind = "corrupt"

loadProgress(st) ==
  IF st.kind = "json"
    THEN [progress |-> st.value, storage |-> st]
    ELSE [progress |-> DefaultProgress, storage |-> saveProgress(DefaultProgress)]

\* renderLevelSelect: one card per level, its button disabled unless
\* unlocks[index] is truthy; listeners are attached to the enabled buttons
renderLevelSelect(levels, p) ==
  [k \in 1 .. Len(levels) |-> [levelId |-> levels[k].id,
                               disabled |-> ~Truthy(p.unlocks, k - 1)]]

\* levelsData.find((l) => l.id === levelId)
FindLevel(levels, levelId) ==
  IF \E k \in 1 .. Len(levels) : levels[k].id = levelId
    THEN levels[CHOOSE k \in 1 .. Len(levels) :
                  /\ levels[k].id = levelId
                  /\ \A j \in 1 .. (k - 1) : levels[j].id # levelId]
    ELSE NoLevel

\* variant: the count is written back without the increment
SubmittedCountStale(count) == count

\* updateMessageCount(messageCount + 1) at submission
SubmittedCount(count) == count + 1

\* variant: the score is floored at zero
updateScoreFloored(score, change) == IF score + change < 0 THEN 0 ELSE score + change

\* updateScore(change): currentScore += change
updateScore(score, change) == score + change

\* variant: the form is left enabled during the relay call
EnabledWhileProcessing == FALSE

\* the value chatInput.disabled and sendButton.disabled get while the relay
\* call is awaited
DisabledWhileProcessing == TRUE

\* history entries: a user turn and the model's reply (its serialized JSON)
UserEntry(userMessage) == [role |-> "user", text |-> userMessage, change |-> 0]

ModelEntry(change) == [role |-> "model", text |-> <<"r">>, change |-> change]

\* variant: the user's message is pushed to the history at submission
HistoryPushedAtSubmit(history, userMessage) == Append(history, UserEntry(userMessage))

\* chatHistory after the synchronous part of handleChatSubmit: the message goes
\* to the transcript only, the history is not touched before the reply
HistoryAtSubmit(history, userMessage) == history

\* variant: the reply is pushed before the user's message
HistoryAfterReplyModelFirst(history, userMessage, change) ==
  history \o <<ModelEntry(change), UserEntry(userMessage)>>

\* chatHistory after a reply: the user's entry, then the model's
HistoryAfterReply(history, userMessage, change) ==
  history \o <<UserEntry(userMessage), ModelEntry(change)>>

\* variant: the form is re-enabled in the try block, so only after a reply
DisabledAfterReplyOnly(ok) == ~ok

\* the finally block: chatInput.disabled and sendButton.disabled after the turn
DisabledAfterTurn(ok) == FALSE

\* variant: startLevel keeps the history of the previous mission
HistoryKeptAtStart(history) == history

\* startLevel: chatHistory = []
HistoryAtStart(history) == <<>>

\* variant: startLevel keeps the message count of the previous mission
CountKeptAtStart(count) == count

\* startLevel: messageCount = 0, updateMessageCount(0)
CountAtStart(count) == 0

\* variant: the mission ends one submission late
MissionOverStrict(count, level) == count > level.missionLength

\* the end-of-mission test after the try/finally
MissionOver(count, level) == count >= level.missionLength

\* variant: a tie with passScore fails
PassStrict(score, level) == score > level.passScore

\* endMission, the pure part
Pass(score, level) == score >= level.passScore

HighScores(scores, levelIndex, score) ==
  IF GreaterThan(score, scores, levelIndex)
    THEN ArraySet(scores, levelIndex, score)
    ELSE scores

\* variant: the next index is not checked against the catalog length
UnlocksNextUnbounded(pass, unlocks, levelIndex, nLevels) ==
  /\ pass
  /\ ~Truthy(unlocks, levelIndex + 1)

UnlocksNext(pass, unlocks, levelIndex, nLevels) ==
  /\ pass
  /\ levelIndex + 1 < nLevels
  /\ ~Truthy(unlocks, levelIndex + 1)

\* variant: the next level's flag is assigned the outcome of the mission
UnlocksAssigned(pass, unlocks, levelIndex, nLevels) ==
  IF levelIndex + 1 < nLevels
    THEN ArraySet(unlocks, levelIndex + 1, pass)
    ELSE unlocks

Unlocks(pass, unlocks, levelIndex, nLevels) ==
  IF UnlocksNext(pass, unlocks, levelIndex, nLevels)
    THEN ArraySet(unlocks, levelIndex + 1, TRUE)
    ELSE unlocks

endMissionProgress(p, level, score, nLevels) ==
  [unlocks |-> Unlocks(Pass(score, level), p.unlocks, level.id - 1, nLevels),
   scores |-> HighScores(p.scores, level.id - 1, score)]

endMissionMessage(p, level, score, nLevels) ==
  IF Pass(score, level)
    THEN IF UnlocksNext(TRUE, p.unlocks, level.id - 1, nLevels)
           THEN "success+new" ELSE "success"
    ELSE "failed"

\* --------------------------------------------------------------- startup
\* The page as the script finds it, then the synchronous part of init():
\* loadProgress(), then the fetch of levels.json is awaited.
PageLoad(st) ==
  /\ storage' = IF loadProgressThrows(st) THEN st ELSE loadProgress(st).storage
  /\ playerProgress' = IF loadProgressThrows(st) THEN DefaultProgress
                       ELSE loadProgress(st).progress
  /\ initPc' = IF loadProgressThrows(st) THEN "threw" ELSE "fetching"
  /\ levelsData' = <<>>
  /\ currentLevel' = NoLevel
  /\ chatHistory' = <<>>
  /\ currentScore' = 0
  /\ messageCount' = 0
  /\ screen' = "start"
  /\ levelGrid' = <<>>
  /\ chatLog' = <<>>
  /\ chatInputDisabled' = FALSE
  /\ sendButtonDisabled' = FALSE
  /\ debriefTitle' = ""
  /\ debriefMessage' = ""
  /\ debriefScore' = 0
  /\ inflight' = <<>>
  /\ ctrl' = "Idle"
  /\ accepted' = 0
  /\ okSum' = 0
  /\ resolutions' = 0

StoredAtFirstVisit == {[kind |-> "absent", value |-> DefaultProgress],
                       [kind |-> "corrupt", value |-> DefaultProgress]}

ClientInit ==
  /\ catalogSrc \in CatalogSources
  /\ \E st \in StoredAtFirstVisit :
       /\ storage = IF loadProgressThrows(st) THEN st ELSE loadProgress(st).storage
       /\ playerProgress = IF loadProgressThrows(st) THEN DefaultProgress
                           ELSE loadProgress(st).progress
       /\ initPc = IF loadProgressThrows(st) THEN "threw" ELSE "fetching"
  /\ levelsData = <<>>
  /\ currentLevel = NoLevel
  /\ chatHistory = <<>>
  /\ currentScore = 0
  /\ messageCount = 0
  /\ screen = "start"
  /\ levelGrid = <<>>
  /\ chatLog = <<>>
  /\ chatInputDisabled = FALSE
  /\ sendButtonDisabled = FALSE
  /\ debriefTitle = ""
  /\ debriefMessage = ""
  /\ debriefScore = 0
  /\ inflight = <<>>
  /\ ctrl = "Idle"
  /\ accepted = 0
  /\ okSum = 0
  /\ resolutions = 0
  /\ ev = Event("load", <<>>, TRUE)

\* a request as the handler sees it: the method, whether req.body is an object,
\* and each field of the body as absent, empty ("" or []) or a non-empty value
NoRequest == [method |-> "", hasBody |-> FALSE, systemPrompt |-> "absent",
              history |-> "absent", userMessage |-> "absent"]

RelayIdle ==
  /\ relayReq = NoRequest
  /\ relayPc = "idle"
  /\ relayStatus = 0
  /\ modelInvoked = FALSE

\* the client with a relay whose credential is configured; the relay's answers
\* reach the client as the outcomes of RelayResolve
Init ==
  /\ ClientInit
  /\ API_KEY = TRUE
  /\ RelayIdle

\* the user reloads the page: the closure is rebuilt, localStorage survives
Reload ==
  /\ PageLoad(storage)
  /\ ev' = Event("load", <<>>, TRUE)
  /\ UNCHANGED <<catalogSrc, relayVars>>

\* init(): the fetch of levels.json succeeded
CatalogLoaded ==
  /\ initPc = "fetching"
  /\ initPc' = "done"
  /\ levelsData' = catalogSrc
  /\ levelGrid' = renderLevelSelect(catalogSrc, playerProgress)
  /\ screen' = "start"
  /\ ev' = Event("catalog", <<>>, TRUE)
  /\ UNCHANGED <<storage, catalogSrc, playerProgress, currentLevel, chatHistory,
                 currentScore, messageCount, chatLog, chatInputDisabled,
                 sendButtonDisabled, debriefTitle, debriefMessage, debriefScore,
                 inflight, ghostVars, relayVars>>

\* init(): the fetch failed or the document is malformed; alert, nothing else
CatalogFailed ==
  /\ initPc = "fetching"
  /\ initPc' = "failed"
  /\ ev' = Event("catalogError", <<>>, TRUE)
  /\ UNCHANGED <<storage, catalogSrc, jsVars, domVars, inflight, ghostVars, relayVars>>

\* ------------------------------------------------------------ navigation
\* startButton click: showScreen("levelSelect")
ClickStart ==
  /\ screen = "start"
  /\ screen' = "levelSelect"
  /\ ev' = Event("start", <<>>, TRUE)
  /\ UNCHANGED <<storage, catalogSrc, initPc, jsVars, levelGrid, chatLog,
                 chatInputDisabled, sendButtonDisabled, debriefTitle,
                 debriefMessage, debriefScore, inflight, ghostVars, relayVars>>

\* startLevel(levelId): the lookup assigns currentLevel before the early return
startLevel(levelId) ==
  LET found == FindLevel(levelsData, levelId) IN
  /\ currentLevel' = found
  /\ IF found = NoLevel
       THEN UNCHANGED <<currentScore, messageCount, chatHistory, chatLog, screen,
                        ghostVars>>
       ELSE /\ currentScore' = updateScore(0, 0)
            /\ messageCount' = CountAtStart(messageCount)
            /\ chatHistory' = HistoryAtStart(chatHistory)
            /\ chatLog' = <<"system">>
            /\ screen' = "game"
            /\ ctrl' = "AwaitingInput"
            /\ accepted' = 0
            /\ okSum' = 0
            /\ resolutions' = 0
  /\ UNCHANGED <<storage, catalogSrc, initPc, playerProgress, levelsData, levelGrid,
                 chatInputDisabled, sendButtonDisabled, debriefTitle,
                 debriefMessage, debriefScore, inflight, relayVars>>

\* click on the button of card k: only enabled buttons carry a listener
ClickLevel(k) ==
  /\ screen = "levelSelect"
  /\ k \in DOMAIN levelGrid
  /\ ~levelGrid[k].disabled
  /\ startLevel(levelGrid[k].levelId)
  /\ ev' = [op |-> "startLevel", text |-> <<>>, handled |-> TRUE,
            levelId |-> levelGrid[k].levelId]

\* debriefButton click: returnToLevels
returnToLevels ==
  /\ screen = "debrief"
  /\ levelGrid' = renderLevelSelect(levelsData, playerProgress)
  /\ screen' = "levelSelect"
  /\ ev' = Event("return", <<>>, TRUE)
  /\ UNCHANGED <<storage, catalogSrc, initPc, jsVars, chatLog, chatInputDisabled,
                 sendButtonDisabled, debriefTitle, debriefMessage, debriefScore,
                 inflight, ghostVars, relayVars>>

\* ------------------------------------------------------------- the turn
\* endMission(): high score, unlock, debrief texts, saveProgress, showScreen
endMission ==
  LET after == endMissionProgress(playerProgress, currentLevel, currentScore',
                                  Len(levelsData)) IN
  /\ playerProgress' = after
  /\ debriefTitle' = IF Pass(currentScore', currentLevel) THEN "pass" ELSE "fail"
  /\ debriefMessage' = endMissionMessage(playerProgress, currentLevel, currentScore',
                                         Len(levelsData))
  /\ debriefScore' = currentScore'
  /\ storage' = saveProgress(after)
  /\ screen' = "debrief"

\* handleChatSubmit up to the await: the text is trimmed, an empty one returns;
\* otherwise the count is advanced, the form disabled and the relay called with
\* the history as it is now.
handleChatSubmit(text) ==
  LET userMessage == Trim(text) IN
  IF userMessage = <<>>
    THEN UNCHANGED <<storage, catalogSrc, initPc, jsVars, domVars, inflight, ghostVars>>
    ELSE IF currentLevel = NoLevel
      THEN \* currentLevel.systemPrompt throws inside the try: catch, finally,
           \* then the end-of-mission test throws uncaught
           /\ messageCount < MaxCount
           /\ chatLog' = chatLog \o <<"user", "system">>
           /\ messageCount' = SubmittedCount(messageCount)
           /\ chatInputDisabled' = FALSE
           /\ sendButtonDisabled' = FALSE
           /\ accepted' = accepted + 1
           /\ UNCHANGED <<storage, catalogSrc, initPc, playerProgress, levelsData,
                          currentLevel, chatHistory, currentScore, screen, levelGrid,
                          debriefTitle, debriefMessage, debriefScore, inflight,
                          ctrl, okSum, resolutions>>
      ELSE /\ chatLog' = Append(chatLog, "user")
           /\ messageCount' = SubmittedCount(messageCount)
           /\ chatInputDisabled' = DisabledWhileProcessing
           /\ sendButtonDisabled' = DisabledWhileProcessing
           /\ chatHistory' = HistoryAtSubmit(chatHistory, userMessage)
           /\ inflight' = Append(inflight, [userMessage |-> userMessage,
                                            history |-> chatHistory',
                                            levelId |-> currentLevel.id])
           /\ ctrl' = "Processing"
           /\ accepted' = accepted + 1
           /\ UNCHANGED <<storage, catalogSrc, initPc, playerProgress, levelsData,
                          currentLevel, currentScore, screen, levelGrid,
                          debriefTitle, debriefMessage, debriefScore, okSum,
                          resolutions>>

\* A submit event reaches the form only from a control the user can operate:
\* the game screen is the active one and the input or the send button is enabled
CanSubmit == screen = "game" /\ (~chatInputDisabled \/ ~sendButtonDisabled)

\* the user presses Enter in the input or clicks Send
UserSubmit(text) ==
  /\ ev' = Event("submit", text, CanSubmit)
  /\ UNCHANGED relayVars
  /\ IF CanSubmit
       THEN handleChatSubmit(IF chatInputDisabled THEN <<>> ELSE text)
       ELSE UNCHANGED <<storage, catalogSrc, initPc, jsVars, domVars, inflight,
                        ghostVars>>

\* the rest of handleChatSubmit: relay call k resolves with a reply
\* (ok, score_change) or fails (network error, non-2xx status, bad JSON)
RelayResolve(k, ok, change) ==
  /\ k \in DOMAIN inflight
  /\ inflight' = [j \in 1 .. (Len(inflight) - 1) |->
                    IF j < k THEN inflight[j] ELSE inflight[j + 1]]
  /\ IF ok
       THEN /\ chatHistory' = HistoryAfterReply(chatHistory, inflight[k].userMessage,
                                                change)
            /\ chatLog' = Append(chatLog, "ai")
            /\ currentScore' = updateScore(currentScore, change)
            /\ okSum' = okSum + change
       ELSE /\ chatLog' = Append(chatLog, "system")
            /\ UNCHANGED <<chatHistory, currentScore, okSum>>
  /\ chatInputDisabled' = DisabledAfterTurn(ok)
  /\ sendButtonDisabled' = DisabledAfterTurn(ok)
  /\ IF currentLevel # NoLevel /\ MissionOver(messageCount, currentLevel)
       THEN /\ endMission
            /\ ctrl' = "Ended"
            /\ resolutions' = resolutions + 1
       ELSE /\ ctrl' = IF inflight' = <<>> THEN "AwaitingInput" ELSE ctrl
            /\ UNCHANGED <<playerProgress, debriefTitle, debriefMessage, debriefScore,
                           storage, screen, resolutions>>
  /\ ev' = Event(IF ok THEN "relayOk" ELSE "relayError", <<>>, TRUE)
  /\ UNCHANGED <<catalogSrc, initPc, levelsData, currentLevel, messageCount, levelGrid,
                 accepted, relayVars>>

Next ==
  \/ Reload
  \/ CatalogLoaded
  \/ CatalogFailed
  \/ ClickStart
  \/ \E k \in 1 .. MaxLevels : ClickLevel(k)
  \/ returnToLevels
  \/ \E text \in Texts : UserSubmit(text)
  \/ \E k \in DOMAIN inflight, change \in ScoreChanges : RelayResolve(k, TRUE, change)
  \/ \E k \in DOMAIN inflight : RelayResolve(k, FALSE, 0)

Spec == Init /\ [][Next]_vars

\* the scheduling the turn relies on: the promise of an issued fetch settles
\* and its continuation is run
RelaySettles ==
  \/ \E k \in DOMAIN inflight, change \in ScoreChanges : RelayResolve(k, TRUE, change)
  \/ \E k \in DOMAIN inflight : RelayResolve(k, FALSE, 0)

FairInit == Init /\ Len(catalogSrc) <= MaxFairLevels

FairSpec == FairInit /\ [][Next]_vars /\ WF_vars(RelaySettles)

\* ------------------------------------------- startLevel called directly
\* the ids no level of the loaded catalog carries
AbsentIds == {0, Len(levelsData) + 1}

\* startLevel(id) called with an id that is not in the catalog
StartAbsentLevel(id) ==
  /\ initPc = "done"
  /\ id \in AbsentIds
  /\ startLevel(id)
  /\ ev' = [op |-> "startLevelAbsent", text |-> <<>>, handled |-> TRUE, levelId |-> id]

CallNext ==
  \/ Next
  \/ \E id \in 0 .. (MaxLevels + 1) : StartAbsentLevel(id)

CallSpec == Init /\ [][CallNext]_vars

\* ------------------------------------------------- the relay (api/chat.js)
Methods == {"GET", "POST", "PUT"}
Fields == {"absent", "empty", "value"}

\* a request without a body object has no fields
Requests == {r \in [method : Methods, hasBody : BOOLEAN, systemPrompt : Fields,
                    history : Fields, userMessage : Fields] :
               r.hasBody \/ (r.systemPrompt = "absent" /\ r.history = "absent"
                               /\ r.userMessage = "absent")}

\* !x on a string field: undefined and "" are falsy
FalsyString(f) == f # "value"

\* !x on an array field: only undefined is falsy, [] is truthy
FalsyArray(f) == f = "absent"

\* handler up to the call of the model: the credential, the method, the
\* destructuring of req.body (which throws when there is no body object), the
\* three fields
handlerStep(key, req) ==
  IF ~key THEN [pc |-> "responded", status |-> 500]
  ELSE IF req.method # "POST" THEN [pc |-> "responded", status |-> 405]
  ELSE IF ~req.hasBody THEN [pc |-> "threw", status |-> 0]
  ELSE IF FalsyString(req.systemPrompt) \/ FalsyArray(req.history)
            \/ FalsyString(req.userMessage)
    THEN [pc |-> "responded", status |-> 400]
  ELSE [pc |-> "awaitModel", status |-> 0]

\* a request arrives and handler runs to its first response or to the await
RelayRequest(req) ==
  /\ relayPc # "awaitModel"
  /\ relayReq' = req
  /\ relayPc' = handlerStep(API_KEY, req).pc
  /\ relayStatus' = handlerStep(API_KEY, req).status
  /\ modelInvoked' = (handlerStep(API_KEY, req).pc = "awaitModel")
  /\ UNCHANGED <<API_KEY, clientVars>>

\* chat.sendMessage resolves and its text parses (200), or the call or
\* JSON.parse throws (500)
ModelReturns(ok) ==
  /\ relayPc = "awaitModel"
  /\ relayPc' = "responded"
  /\ relayStatus' = IF ok THEN 200 ELSE 500
  /\ UNCHANGED <<API_KEY, relayReq, modelInvoked, clientVars>>

RelayInit ==
  /\ ClientInit
  /\ Len(catalogSrc) = 1
  /\ storage.kind = "json"
  /\ API_KEY \in BOOLEAN
  /\ RelayIdle

RelayNext ==
  \/ \E req \in Requests : RelayRequest(req)
  \/ \E ok \in BOOLEAN : ModelReturns(ok)

RelaySpec == RelayInit /\ [][RelayNext]_vars

\* ================================================================ claims
RelayResolved == ev'.op \in {"relayOk", "relayError"}

MissionResolved == RelayResolved /\ resolutions' = resolutions + 1

Max(a, b) == IF a >= b THEN a ELSE b

\* the high score shown for a level: scores[index] || 0
ScoreAt(scores, i) == IF Defined(scores, i) THEN scores[i] ELSE 0

\* a text that trims to empty: nothing but white space
Blank(text) == \A k \in DOMAIN text : text[k] = " "

\* C1: at most one relay call is in flight in every reachable state; no
\* sequence of user events issues a second call before the first resolved.
C1_OneRelayInFlight == Len(inflight) <= 1

C1_Witness ==
  /\ Len(inflight) = 1
  /\ ev.op = "submit" /\ ~Blank(ev.text) /\ ~ev.handled
  /\ ctrl = "Processing"

\* C2: a submission whose text trims to empty, or made while the controller is
\* not in AwaitingInput, changes neither messageCount, score, history, player
\* progress, the current level nor the active screen, and issues no relay call.
C2_RejectedSubmitIsNoOp ==
  [][(ev'.op = "submit" /\ (Blank(ev'.text) \/ ctrl # "AwaitingInput"))
       => UNCHANGED <<messageCount, currentScore, chatHistory, playerProgress,
                      currentLevel, screen, inflight, storage>>]_vars

C2_Witness ==
  /\ ev.op = "submit" /\ ~Blank(ev.text) /\ ~ev.handled
  /\ ctrl = "Ended"
  /\ ~chatInputDisabled

\* C3: messageCount equals the number of accepted submissions since
\* startLevel, whatever the relay outcomes were.
C3_CountIsAcceptedSubmissions == messageCount = accepted

C3_Witness ==
  /\ messageCount = 2
  /\ Len(chatHistory) = 2
  /\ ev.op = "relayError"

\* C4: when a turn's relay call resolves (reply or failure) the mission ends
\* and is resolved iff messageCount >= missionLength, otherwise the controller
\* is back in AwaitingInput; the mission is never Ended with fewer submissions.
C4_EndsExactlyAtMissionLength ==
  [][/\ RelayResolved =>
          IF messageCount >= currentLevel.missionLength
            THEN /\ ctrl' = "Ended" /\ screen' = "debrief"
                 /\ resolutions' = resolutions + 1
                 /\ storage' = saveProgress(playerProgress')
            ELSE /\ ctrl' = "AwaitingInput" /\ screen' = "game"
                 /\ resolutions' = resolutions
                 /\ UNCHANGED <<playerProgress, storage>>
     /\ ctrl' = "Ended" => messageCount' >= currentLevel'.missionLength]_vars

C4_Witness ==
  /\ ctrl = "Ended"
  /\ ev.op = "relayError"
  /\ messageCount = 2
  /\ Len(chatHistory) = 0

\* C5: the running score is the signed sum of the score_change values of the
\* turns whose relay call succeeded since startLevel.
C5_ScoreIsSumOfChanges == currentScore = okSum

C5_Witness ==
  /\ currentScore = -2
  /\ Len(chatHistory) = 4

\* C6: after mission resolution the debrief reports pass iff the final score
\* is at least the level's passScore.
C6_PassIffScoreAtLeastPassScore ==
  ctrl = "Ended" =>
    /\ debriefTitle \in {"pass", "fail"}
    /\ debriefTitle = "pass" <=> currentScore >= currentLevel.passScore
    /\ debriefScore = currentScore

C6_Witness ==
  /\ ctrl = "Ended"
  /\ currentLevel.passScore = 1
  /\ currentScore = currentLevel.passScore
  /\ debriefTitle = "pass"

\* C7: resolving a mission on level index i with final score s leaves
\* scores[i] = max(old scores[i], s) and every other stored score unchanged.
C7_HighScoreIsMax ==
  [][MissionResolved =>
       LET i == currentLevel.id - 1 IN
       /\ ScoreAt(playerProgress'.scores, i)
            = Max(ScoreAt(playerProgress.scores, i), currentScore')
       /\ \A j \in 0 .. (MaxLevels - 1) :
            j # i => ScoreAt(playerProgress'.scores, j) = ScoreAt(playerProgress.scores, j)]_vars

\* C7 restricted to the levels the progress record has a score entry for: there
\* the stored score is the maximum and the other entries are untouched
C7_HighScoreIsMaxWhereStored ==
  [][MissionResolved /\ Defined(playerProgress.scores, currentLevel.id - 1) =>
       LET i == currentLevel.id - 1 IN
       /\ playerProgress'.scores[i] = Max(playerProgress.scores[i], currentScore')
       /\ \A j \in DOMAIN playerProgress.scores :
            j # i => playerProgress'.scores[j] = playerProgress.scores[j]
       /\ DOMAIN playerProgress'.scores = DOMAIN playerProgress.scores]_vars

\* C8: once unlocks[i] is true it is never false again, over load, startLevel,
\* turns, mission resolution and return to level select.
C8_UnlockMonotone ==
  [][\A i \in 0 .. MaxLevels :
       Truthy(playerProgress.unlocks, i) => Truthy(playerProgress'.unlocks, i)]_vars

C8_Witness ==
  /\ Truthy(playerProgress.unlocks, 1)
  /\ ev.op = "load"

\* C9: after startup unlocks[0] is true and unlocks and scores have one entry
\* per level of the loaded catalog.
C9_ProgressMatchesCatalog ==
  initPc = "done" =>
    /\ Truthy(playerProgress.unlocks, 0)
    /\ Length(playerProgress.unlocks) = Len(levelsData)
    /\ Length(playerProgress.scores) = Len(levelsData)

\* C10: mission resolution unlocks level index + 1 and reports a new unlock
\* exactly when the mission passed, a next level exists and it was locked;
\* otherwise no unlock flag changes.
C10_UnlockExactlyOnPassWithLockedNext ==
  [][MissionResolved =>
       LET i == currentLevel.id - 1
           due == /\ currentScore' >= currentLevel.passScore
                  /\ i + 1 < Len(levelsData)
                  /\ ~Truthy(playerProgress.unlocks, i + 1)
       IN IF due
            THEN /\ Truthy(playerProgress'.unlocks, i + 1)
                 /\ debriefMessage' = "success+new"
                 /\ \A j \in 0 .. MaxLevels :
                      j # i + 1 => (Truthy(playerProgress'.unlocks, j)
                                      <=> Truthy(playerProgress.unlocks, j))
            ELSE /\ playerProgress'.unlocks = playerProgress.unlocks
                 /\ debriefMessage' # "success+new"]_vars

C10_Witness ==
  /\ ctrl = "Ended"
  /\ debriefMessage = "success+new"
  /\ Truthy(playerProgress.unlocks, 1)

Interactive ==
  \/ /\ ctrl = "AwaitingInput" /\ screen = "game"
     /\ ~chatInputDisabled /\ ~sendButtonDisabled
  \/ ctrl = "Ended" /\ screen = "debrief"

\* C12: the session is never stuck in Processing: an issued relay call
\* resolves (or the page is reloaded), and when it resolves, with a reply or
\* with an error, the error is shown in the transcript, no call is left in
\* flight and the controller is interactive.
C12_NeverStuckInProcessing ==
  /\ [][RelayResolved =>
          /\ Interactive'
          /\ inflight' = <<>>
          /\ ev'.op = "relayError" => chatLog' = Append(chatLog, "system")]_vars
  /\ (ctrl = "Processing") ~> (Interactive \/ ctrl = "Idle")

C12_Witness ==
  /\ ev.op = "relayError"
  /\ ctrl = "AwaitingInput"
  /\ CanSubmit
  /\ messageCount = 1

\* C13: startLevel(id) with an id that is not in the catalog leaves the current
\* level, score, messageCount, history and active screen unchanged.
C13_AbsentStartLevelChangesNothing ==
  [][ev'.op = "startLevelAbsent" =>
       UNCHANGED <<currentLevel, currentScore, messageCount, chatHistory, screen>>]_vars

\* C14: with a corrupt stored record, loading falls back to the default
\* progress and init goes on to fetch the catalog.
C14_CorruptRecordFallsBack ==
  storage.kind = "corrupt" =>
    /\ playerProgress = DefaultProgress
    /\ initPc \in {"fetching", "done", "failed"}

\* C15: once the catalog load has failed, no event makes the level-select,
\* game or debrief screen active and no level becomes current.
C15_NoProgressAfterCatalogFailure ==
  [][(initPc = "failed" /\ initPc' = "failed") =>
       /\ screen' \in {"levelSelect", "game", "debrief"} => screen' = screen
       /\ currentLevel' = NoLevel]_vars

\* C16 as claimed: after the return from the debrief to level select, score and
\* messageCount are 0 and the history is empty.
C16_ResetOnReturn ==
  ev.op = "return" => currentScore = 0 /\ messageCount = 0 /\ chatHistory = <<>>

\* C16 amended: the session state is reset when a new level starts; the return
\* to level select leaves it as the mission left it.
C16_ResetOnStartOnly ==
  [][/\ ev'.op = "return" =>
          UNCHANGED <<currentLevel, currentScore, messageCount, chatHistory>>
     /\ ev'.op = "startLevel" =>
          currentScore' = 0 /\ messageCount' = 0 /\ chatHistory' = <<>>]_vars

C16_Witness ==
  /\ ev.op = "return"
  /\ messageCount > 0
  /\ chatHistory # <<>>
  /\ currentScore # 0

\* a request that lacks one of the three fields
MissingField(req) ==
  \/ ~req.hasBody
  \/ req.systemPrompt = "absent" \/ req.history = "absent" \/ req.userMessage = "absent"

\* C17, read with the backend credential configured (without it every request
\* is answered 500): a non-POST request is answered 405, a request missing a
\* field 400, neither reaches the model; a well-formed POST with an empty
\* history passes validation.
C17_RejectsWith405And400 ==
  (relayPc # "idle" /\ API_KEY) =>
    /\ relayReq.method # "POST" => relayStatus = 405 /\ ~modelInvoked
    /\ (relayReq.method = "POST" /\ MissingField(relayReq)) =>
         relayStatus = 400 /\ ~modelInvoked
    /\ (relayReq.method = "POST" /\ relayReq.hasBody /\ relayReq.systemPrompt = "value"
          /\ relayReq.history = "empty" /\ relayReq.userMessage = "value") => modelInvoked

\* what the handler does for every request: the model is never invoked for a non-POST request or one
\* missing a field.  With the credential configured a non-POST request is
\* answered 405, a POST whose body object lacks a field (or has an empty
\* systemPrompt or userMessage) 400, and a well-formed POST with an empty
\* history passes validation; a POST without a body object throws before any
\* response.  Without the credential every request is answered 500.
C17_RejectsBeforeModel ==
  relayPc # "idle" =>
    /\ (relayReq.method # "POST" \/ MissingField(relayReq)) => ~modelInvoked
    /\ ~API_KEY => relayStatus = 500 /\ ~modelInvoked
    /\ (API_KEY /\ relayReq.method # "POST") => relayStatus = 405
    /\ (API_KEY /\ relayReq.method = "POST" /\ ~relayReq.hasBody) =>
         relayPc = "threw" /\ relayStatus = 0
    /\ (API_KEY /\ relayReq.method = "POST" /\ relayReq.hasBody
          /\ (relayReq.systemPrompt # "value" \/ relayReq.history = "absent"
                \/ relayReq.userMessage # "value")) => relayStatus = 400 /\ ~modelInvoked
    /\ (API_KEY /\ relayReq.method = "POST" /\ relayReq.hasBody
          /\ relayReq.systemPrompt = "value" /\ relayReq.history # "absent"
          /\ relayReq.userMessage = "value") =>
         modelInvoked /\ relayStatus \in {0, 200, 500}

C17_Witness ==
  /\ API_KEY
  /\ relayReq.method = "POST"
  /\ relayReq.history = "empty"
  /\ modelInvoked
  /\ relayStatus = 200

\* C18: startLevel with an id of the catalog sets the current level to that
\* definition, resets score, messageCount and history, and lands in
\* AwaitingInput on the game screen with the form enabled; the progress and the
\* stored record are unchanged.
C18_StartLevelResets ==
  [][ev'.op = "startLevel" =>
       /\ \E k \in DOMAIN levelsData : currentLevel' = levelsData[k]
       /\ currentLevel'.id = ev'.levelId
       /\ currentScore' = 0 /\ messageCount' = 0 /\ chatHistory' = <<>>
       /\ chatLog' = <<"system">>
       /\ ctrl' = "AwaitingInput" /\ screen' = "game"
       /\ ~chatInputDisabled' /\ ~sendButtonDisabled'
       /\ UNCHANGED <<playerProgress, storage>>]_vars

C18_Witness ==
  /\ ev.op = "startLevel"
  /\ debriefTitle = "pass"
  /\ debriefScore # 0
  /\ currentLevel.id = 2

CountOf(seq, x) == Cardinality({k \in DOMAIN seq : seq[k] = x})

Alternates(h) == \A k \in DOMAIN h : h[k].role = IF k % 2 = 1 THEN "user" ELSE "model"

IsPrefix(a, b) == Len(a) <= Len(b) /\ SubSeq(b, 1, Len(a)) = a

C20_ResolvedOnceWithinBudget ==
  currentLevel # NoLevel =>
    /\ messageCount <= currentLevel.missionLength
    /\ resolutions <= 1
    /\ resolutions = 1 <=> (messageCount = currentLevel.missionLength /\ inflight = <<>>)
    /\ resolutions = 1 <=> ctrl = "Ended"

C20_Witness ==
  /\ resolutions = 1
  /\ ev.op = "submit" /\ ~ev.handled
  /\ messageCount = currentLevel.missionLength
  /\ messageCount = 2

====
